---- MODULE Spec2Model ----
(***************************************************************************)
(* Solterra front-end: the page components as state machines.              *)
(*                                                                         *)
(* The router shows one page component at a time (variable page).  Each    *)
(* component's useState cells are the fields of one record variable, named *)
(* as in the source.  A click handler, an effect, or the continuation of   *)
(* an async function after an await is one atomic action (JavaScript is    *)
(* single-threaded and React commits the batched setters before the next   *)
(* event is handled).  A fetch in flight is an element of the bag          *)
(* inflight: a pending request, which the backend replaces by its          *)
(* response, which the continuation of the async function takes.           *)
(***************************************************************************)
EXTENDS Integers, Sequences, FiniteSets, Bags, TLC

VARIABLES
    page,            \* the page component the router shows
    mounted,         \* its mount effects have run
    localStorage,    \* the browser's local storage
    inflight,        \* the bag of requests and responses under way
    now,             \* the clock
    serverBookings,  \* the participant's bookings as the backend holds them
    timers,          \* pending setTimeout(() => fetchBookings(), 1000)
    pendingEffect,   \* a useEffect whose dependencies changed has yet to run
    cancelCount,     \* cancel requests issued so far
    bookingPage,     \* the cells of EventBookingPage
    eventsPage,      \* the cells of EventsPage
    myBookingsPage,  \* the cells of MyBookingsPage
    viewResultPage,  \* the cells of ViewResultPage
    redirect,        \* the route given to router.push, if any
    myResultsPage,   \* the cells of MyResultsPage
    dashboardPage,   \* the cells of ParticipantDashboardPage
    adminDashboardPage, \* the cells of AdminDashboardPage
    adminEventsPage  \* the cells of AdminEventsPage

vars == <<page, mounted, localStorage, inflight, now, serverBookings, timers, pendingEffect,
          cancelCount, bookingPage, eventsPage, myBookingsPage, viewResultPage, redirect,
          myResultsPage, dashboardPage, adminDashboardPage, adminEventsPage>>

Components == <<bookingPage, eventsPage, myBookingsPage, viewResultPage,
                myResultsPage, dashboardPage, adminDashboardPage, adminEventsPage>>

\* the cells of the result, dashboard and admin pages
OtherPages == <<myResultsPage, dashboardPage, adminDashboardPage, adminEventsPage>>

\* what no action of a page changes: the route, the storage and the cells of
\* the components that are not mounted
Fixed == <<page, localStorage, now>>

MyBookingsEnv == <<serverBookings, timers, pendingEffect, cancelCount>>

BookingFrame == <<Fixed, MyBookingsEnv, redirect, eventsPage, myBookingsPage, viewResultPage, OtherPages>>

EventsFrame == <<Fixed, MyBookingsEnv, redirect, bookingPage, myBookingsPage, viewResultPage, OtherPages>>

MyBookingsFrame == <<Fixed, bookingPage, eventsPage, viewResultPage, OtherPages>>

ViewResultFrame == <<Fixed, MyBookingsEnv, redirect, bookingPage, eventsPage, myBookingsPage, OtherPages>>

MyResultsFrame == <<Fixed, serverBookings, timers, cancelCount, redirect, bookingPage, eventsPage,
                    myBookingsPage, viewResultPage, dashboardPage, adminDashboardPage, adminEventsPage>>

DashboardFrame == <<Fixed, MyBookingsEnv, redirect, bookingPage, eventsPage, myBookingsPage,
                    viewResultPage, myResultsPage, adminDashboardPage, adminEventsPage>>

AdminDashboardFrame == <<Fixed, MyBookingsEnv, redirect, bookingPage, eventsPage, myBookingsPage,
                         viewResultPage, myResultsPage, dashboardPage, adminEventsPage>>

AdminEventsFrame == <<Fixed, MyBookingsEnv, redirect, bookingPage, eventsPage, myBookingsPage,
                      viewResultPage, myResultsPage, dashboardPage, adminDashboardPage>>

----------------------------------------------------------------------------
(* Bounds *)

MaxSlots == 2
MaxEvents == 2
MaxLen == 2
MaxCancels == 2
MaxResults == 2

\* requests in flight beyond which the administrator stops deleting
MaxDeletes == 2

----------------------------------------------------------------------------
(* Values *)

NULL == "null"
NullRec == [null |-> TRUE]

Pages == {"EventBookingPage", "EventsPage", "MyBookingsPage", "ViewResultPage", "MyResultsPage",
          "ParticipantDashboardPage", "AdminDashboardPage", "AdminEventsPage"}

\* the access_token entry: absent, a JWT whose payload carries a role, or a
\* string whose payload cannot be decoded
Tokens == {NULL, "participant", "admin", "malformed"}

\* the toast cell; the message text is display only and is left out
InitialToast == [type |-> "success", show |-> FALSE]

Toast(t) == [type |-> t, show |-> TRUE]

\* A message in flight: a request the backend has not answered (status
\* "pending", body the request body) or its response on the way back (status
\* "ok", "notok" for res.ok false, "throw" for a rejected fetch or a body that
\* res.json() cannot parse; body the response body).
Msg(fn, url, status, body) == [fn |-> fn, url |-> url, status |-> status, body |-> body]

Send(bag, req) == bag (+) SetToBag({req})

Receive(res) == inflight (-) SetToBag({res})

Responses(fn) == {m \in BagToSet(inflight) : m.fn = fn /\ m.status # "pending"}

\* the JSON body of an error response
ErrorBody == [detail |-> "error"]

----------------------------------------------------------------------------
(* EventBookingPage *)

eventId == "E1"

Questions == {"age", "menstruating", "hysterectomy", "hpv_test"}

EventBookingPageInit ==
    [ event |-> NullRec,
      timeSlots |-> <<>>,
      hasTimeSlots |-> FALSE,
      currentStep |-> "details",
      loading |-> TRUE,
      bookingLoading |-> FALSE,
      isBooked |-> FALSE,
      bookingReference |-> "",
      acceptedTerms |-> FALSE,
      userRole |-> NULL,
      selectedTimeSlot |-> NullRec,
      eligibility |-> [q \in Questions |-> NULL],
      toast |-> InitialToast ]

EventBodies == {[kind |-> "Event", available_slots |-> n] : n \in {0, 1}}

TimeSlot(i, a) == [start |-> i, end |-> i + 1, available |-> a]

\* the slots of an event: none, or MaxSlots slots, each full or not
SlotLists ==
    UNION {{[i \in 1..n |-> TimeSlot(i, f[i])] : f \in [1..n -> {0, 1}]} : n \in {0, MaxSlots}}

\* an event without time slots has none to list
SlotsBodies ==
    {[has_time_slots |-> TRUE, slots |-> s] : s \in SlotLists}
        \cup {[has_time_slots |-> FALSE, slots |-> <<>>]}

\* the event ids of the participant's bookings
BookedEventLists == {<<"E2">>, <<"E2", eventId>>}

BookingCreated == {[booking |-> [booking_reference |-> r]] : r \in {"REF-A", "REF-B"}}

UrlEvent == "GET /events/{id}"

UrlSlots == "GET /events/{id}/time-slots"

UrlBookings == "GET /participant/bookings"

UrlBook == "POST /participant/bookings"

\* a mount effect whose fetchEventAndTimeSlots requests the event and the
\* time slots together
BookingMountAllAtOnce ==
    /\ page = "EventBookingPage"
    /\ ~mounted
    /\ mounted' = TRUE
    /\ LET token == localStorage.access_token
           role == IF token \in {NULL, "malformed"} THEN NULL ELSE token
           fetching == Send(Send(inflight, Msg("fetchEventAndTimeSlots", UrlEvent, "pending", NullRec)),
                            Msg("fetchEventAndTimeSlots", UrlSlots, "pending", NullRec))
       IN /\ bookingPage' = [bookingPage EXCEPT !.loading = TRUE, !.userRole = role]
          /\ inflight' = IF role = "participant"
                           THEN Send(fetching, Msg("checkIfBooked", UrlBookings, "pending", NullRec))
                           ELSE fetching
    /\ UNCHANGED BookingFrame

\* useEffect(..., [eventId]): fetchEventAndTimeSlots() runs to its first
\* await, then the token is decoded and checkIfBooked(token) runs to its await
BookingMount ==
    /\ page = "EventBookingPage"
    /\ ~mounted
    /\ mounted' = TRUE
    /\ LET token == localStorage.access_token
           role == IF token \in {NULL, "malformed"} THEN NULL ELSE token
           fetching == Send(inflight, Msg("fetchEventAndTimeSlots", UrlEvent, "pending", NullRec))
       IN /\ bookingPage' = [bookingPage EXCEPT !.loading = TRUE, !.userRole = role]
          /\ inflight' = IF role = "participant"
                           THEN Send(fetching, Msg("checkIfBooked", UrlBookings, "pending", NullRec))
                           ELSE fetching
    /\ UNCHANGED BookingFrame

\* fetchEventAndTimeSlots after the first await: res.ok is not tested, the
\* parsed body becomes event whatever the status; a throw goes to catch and
\* finally
EventResponse(res) ==
    /\ page = "EventBookingPage"
    /\ res \in Responses("fetchEventAndTimeSlots")
    /\ res.url = UrlEvent
    /\ IF res.status = "throw"
         THEN /\ bookingPage' = [bookingPage EXCEPT
                                   !.toast = Toast("error"),
                                   !.loading = FALSE]
              /\ inflight' = Receive(res)
         ELSE /\ bookingPage' = [bookingPage EXCEPT !.event = res.body]
              /\ inflight' = Send(Receive(res), Msg("fetchEventAndTimeSlots", UrlSlots, "pending", NullRec))
    /\ UNCHANGED <<mounted, BookingFrame>>

\* fetchEventAndTimeSlots after the second await; the body of an error
\* response has no has_time_slots and no slots
SlotsResponse(res) ==
    /\ page = "EventBookingPage"
    /\ res \in Responses("fetchEventAndTimeSlots")
    /\ res.url = UrlSlots
    /\ bookingPage' =
         CASE res.status = "throw" ->
                [bookingPage EXCEPT !.toast = Toast("error"),
                                    !.loading = FALSE]
           [] res.status = "notok" ->
                [bookingPage EXCEPT !.hasTimeSlots = FALSE, !.timeSlots = <<>>,
                                    !.loading = FALSE]
           [] res.status = "ok" ->
                [bookingPage EXCEPT !.hasTimeSlots = res.body.has_time_slots,
                                    !.timeSlots = res.body.slots,
                                    !.loading = FALSE]
    /\ inflight' = Receive(res)
    /\ UNCHANGED <<mounted, BookingFrame>>

\* bookings.some(b => b.event.id === eventId)
hasBooked(bookings) == \E i \in 1..Len(bookings) : bookings[i] = eventId

\* checkIfBooked after its await
CheckIfBookedResponse(res) ==
    /\ page = "EventBookingPage"
    /\ res \in Responses("checkIfBooked")
    /\ bookingPage' = IF res.status = "ok"
                        THEN [bookingPage EXCEPT !.isBooked = hasBooked(res.body)]
                        ELSE bookingPage
    /\ inflight' = Receive(res)
    /\ UNCHANGED <<mounted, BookingFrame>>

\* The wizard is rendered once loading is false and event is set.  With the
\* body of an error response in event, the details step reads
\* event.event_time.slice and the render throws.
WizardRendered ==
    /\ page = "EventBookingPage"
    /\ ~bookingPage.loading
    /\ bookingPage.event # NullRec
    /\ "kind" \in DOMAIN bookingPage.event

SetCurrentStep(s) ==
    /\ bookingPage' = [bookingPage EXCEPT !.currentStep = s]
    /\ UNCHANGED <<inflight, mounted, BookingFrame>>

\* the button rendered for every role
ContinueToEligibilityAnyRole ==
    /\ WizardRendered
    /\ bookingPage.currentStep = "details"
    /\ ~bookingPage.isBooked
    /\ bookingPage.event.available_slots > 0
    /\ SetCurrentStep("eligibility")

ContinueToEligibility ==
    /\ WizardRendered
    /\ bookingPage.currentStep = "details"
    /\ bookingPage.userRole = "participant"
    /\ ~bookingPage.isBooked
    /\ bookingPage.event.available_slots > 0
    /\ SetCurrentStep("eligibility")

EligibilityBack ==
    /\ WizardRendered
    /\ bookingPage.currentStep = "eligibility"
    /\ SetCurrentStep("details")

AnswerEligibility(q, v) ==
    /\ WizardRendered
    /\ bookingPage.currentStep = "eligibility"
    /\ bookingPage' = [bookingPage EXCEPT !.eligibility[q] = v]
    /\ UNCHANGED <<inflight, mounted, BookingFrame>>

canProceedFromEligibility ==
    /\ bookingPage.eligibility["age"] # NULL
    /\ bookingPage.eligibility["menstruating"] # NULL
    /\ bookingPage.eligibility["hysterectomy"] # NULL
    /\ bookingPage.eligibility["hpv_test"] # NULL

isEligible ==
    /\ bookingPage.eligibility["age"] = "true"
    /\ bookingPage.eligibility["menstruating"] = "false"
    /\ bookingPage.eligibility["hysterectomy"] = "false"
    /\ bookingPage.eligibility["hpv_test"] = "false"

\* the note under the questions
eligibilityWarning ==
    /\ WizardRendered
    /\ bookingPage.currentStep = "eligibility"
    /\ canProceedFromEligibility /\ ~isEligible

\* a Continue button that screens: enabled for eligible answers only
EligibilityContinueEligibleOnly ==
    /\ WizardRendered
    /\ bookingPage.currentStep = "eligibility"
    /\ canProceedFromEligibility
    /\ isEligible
    /\ SetCurrentStep(IF bookingPage.hasTimeSlots THEN "time-slot" ELSE "confirmation")

\* the Continue button without its disabled attribute
EligibilityContinueUngated ==
    /\ WizardRendered
    /\ bookingPage.currentStep = "eligibility"
    /\ SetCurrentStep(IF bookingPage.hasTimeSlots THEN "time-slot" ELSE "confirmation")

EligibilityContinue ==
    /\ WizardRendered
    /\ bookingPage.currentStep = "eligibility"
    /\ canProceedFromEligibility
    /\ SetCurrentStep(IF bookingPage.hasTimeSlots THEN "time-slot" ELSE "confirmation")

TimeSlotBack ==
    /\ WizardRendered
    /\ bookingPage.currentStep = "time-slot"
    /\ bookingPage.hasTimeSlots
    /\ SetCurrentStep("eligibility")

SelectTimeSlot(i) ==
    /\ WizardRendered
    /\ bookingPage.currentStep = "time-slot"
    /\ bookingPage.hasTimeSlots
    /\ i \in 1..Len(bookingPage.timeSlots)
    /\ ~(bookingPage.timeSlots[i].available <= 0)
    /\ bookingPage' = [bookingPage EXCEPT !.selectedTimeSlot = bookingPage.timeSlots[i]]
    /\ UNCHANGED <<inflight, mounted, BookingFrame>>

\* the Continue button without its disabled attribute
TimeSlotContinueUngated ==
    /\ WizardRendered
    /\ bookingPage.currentStep = "time-slot"
    /\ bookingPage.hasTimeSlots
    /\ SetCurrentStep("confirmation")

TimeSlotContinue ==
    /\ WizardRendered
    /\ bookingPage.currentStep = "time-slot"
    /\ bookingPage.hasTimeSlots
    /\ bookingPage.selectedTimeSlot # NullRec
    /\ SetCurrentStep("confirmation")

ConfirmationBack ==
    /\ WizardRendered
    /\ bookingPage.currentStep = "confirmation"
    /\ SetCurrentStep(IF bookingPage.hasTimeSlots THEN "time-slot" ELSE "eligibility")

SetAcceptedTerms(checked) ==
    /\ WizardRendered
    /\ bookingPage.currentStep = "confirmation"
    /\ bookingPage' = [bookingPage EXCEPT !.acceptedTerms = checked]
    /\ UNCHANGED <<inflight, mounted, BookingFrame>>

requestBody ==
    IF bookingPage.hasTimeSlots /\ bookingPage.selectedTimeSlot # NullRec
        THEN [event_id |-> eventId,
              time_slot_start |-> bookingPage.selectedTimeSlot.start,
              time_slot_end |-> bookingPage.selectedTimeSlot.end]
        ELSE [event_id |-> eventId]

\* a Confirm Booking button that is not disabled while bookingLoading
handleBookingWhileLoading ==
    /\ WizardRendered
    /\ bookingPage.currentStep = "confirmation"
    /\ bookingPage.acceptedTerms
    /\ IF localStorage.access_token = NULL
         THEN /\ bookingPage' = [bookingPage EXCEPT
                                   !.toast = Toast("error"),
                                   !.bookingLoading = FALSE]
              /\ UNCHANGED inflight
         ELSE /\ bookingPage' = [bookingPage EXCEPT !.bookingLoading = TRUE]
              /\ inflight' = Send(inflight, Msg("handleBooking", UrlBook, "pending", requestBody))
    /\ UNCHANGED <<mounted, BookingFrame>>

\* the Confirm Booking button: handleBooking up to its await, or, without a
\* token, through the early return and finally
handleBooking ==
    /\ WizardRendered
    /\ bookingPage.currentStep = "confirmation"
    /\ bookingPage.acceptedTerms
    /\ ~bookingPage.bookingLoading
    /\ IF localStorage.access_token = NULL
         THEN /\ bookingPage' = [bookingPage EXCEPT
                                   !.toast = Toast("error"),
                                   !.bookingLoading = FALSE]
              /\ UNCHANGED inflight
         ELSE /\ bookingPage' = [bookingPage EXCEPT !.bookingLoading = TRUE]
              /\ inflight' = Send(inflight, Msg("handleBooking", UrlBook, "pending", requestBody))
    /\ UNCHANGED <<mounted, BookingFrame>>

\* handleBooking after the await, res.ok
BookingSucceeds(res) ==
    [bookingPage EXCEPT
       !.bookingReference = res.body.booking.booking_reference,
       !.isBooked = TRUE,
       !.currentStep = "success",
       !.toast = Toast("success"),
       !.bookingLoading = FALSE]

\* catch without the finally block
BookingFailsNoFinally(res) ==
    [bookingPage EXCEPT !.toast = Toast("error")]

\* res.ok false (an Error is thrown) or the request throws: catch, finally
BookingFails(res) ==
    [bookingPage EXCEPT !.toast = Toast("error"), !.bookingLoading = FALSE]

\* a continuation of handleBooking that keeps the booking reference in local
\* storage
BookingResponseStoringReference(res) ==
    /\ page = "EventBookingPage"
    /\ res \in Responses("handleBooking")
    /\ bookingPage' = IF res.status = "ok" THEN BookingSucceeds(res) ELSE BookingFails(res)
    /\ localStorage' =
         IF res.status = "ok"
           THEN [access_token |-> localStorage.access_token,
                 booking_reference |-> res.body.booking.booking_reference]
           ELSE localStorage
    /\ inflight' = Receive(res)
    /\ UNCHANGED <<mounted, page, now, MyBookingsEnv, redirect, eventsPage, myBookingsPage,
                   viewResultPage, OtherPages>>

BookingResponse(res) ==
    /\ page = "EventBookingPage"
    /\ res \in Responses("handleBooking")
    /\ bookingPage' = IF res.status = "ok" THEN BookingSucceeds(res) ELSE BookingFails(res)
    /\ inflight' = Receive(res)
    /\ UNCHANGED <<mounted, BookingFrame>>

\* the toast's onClose
BookingCloseToast ==
    /\ page = "EventBookingPage"
    /\ ~bookingPage.loading
    /\ bookingPage.toast.show
    /\ bookingPage' = [bookingPage EXCEPT !.toast.show = FALSE]
    /\ UNCHANGED <<inflight, mounted, BookingFrame>>

BookingNext ==
    \/ BookingMount
    \/ \E res \in BagToSet(inflight) : EventResponse(res)
    \/ \E res \in BagToSet(inflight) : SlotsResponse(res)
    \/ \E res \in BagToSet(inflight) : CheckIfBookedResponse(res)
    \/ ContinueToEligibility
    \/ EligibilityBack
    \/ \E q \in Questions, v \in {"true", "false"} : AnswerEligibility(q, v)
    \/ EligibilityContinue
    \/ TimeSlotBack
    \/ \E i \in 1..MaxSlots : SelectTimeSlot(i)
    \/ TimeSlotContinue
    \/ ConfirmationBack
    \/ \E checked \in BOOLEAN : SetAcceptedTerms(checked)
    \/ handleBooking
    \/ \E res \in BagToSet(inflight) : BookingResponse(res)
    \/ BookingCloseToast

----------------------------------------------------------------------------
(* EventsPage *)

\* strings are sequences of characters
Alphabet == {"a", "A", "b"}

Dates == {"2025-01-01", "2025-01-02"}

\* the events the backend knows
EventCatalogue ==
    { [id |-> "E1", address |-> <<"A", "b">>, event_date |-> "2025-01-01"],
      [id |-> "E2", address |-> <<"b">>, event_date |-> "2025-01-02"],
      [id |-> "E3", address |-> <<"a">>, event_date |-> "2025-01-01"] }

IsInjective(f) == \A i, j \in DOMAIN f : f[i] = f[j] => i = j

EventLists ==
    UNION {{l \in [1..n -> EventCatalogue] : IsInjective(l)} : n \in 0..MaxEvents}

EventsPageInit ==
    [ events |-> <<>>,
      bookedEventIds |-> {},
      searchLocation |-> <<>>,
      selectedDate |-> "",
      loading |-> TRUE,
      userRole |-> NULL,
      toast |-> InitialToast ]

UrlPublished == "GET /events/?published_only=true"

UrlAll == "GET /events/?published_only=false"

\* the list comes bare or wrapped as {events: [...]}
EventsBodies == {[events |-> l] : l \in EventLists} \cup {[array |-> l] : l \in EventLists}

\* useEffect(..., []): the token is decoded and fetchParticipantBookings runs
\* to its await, then fetchEvents runs to its await.  fetchEvents reads
\* userRole of the render whose effect this is, not the role just decoded.
EventsMount ==
    /\ page = "EventsPage"
    /\ ~mounted
    /\ mounted' = TRUE
    /\ LET token == localStorage.access_token
           role == IF token \in {NULL, "malformed"} THEN NULL ELSE token
           url == IF eventsPage.userRole = "admin" THEN UrlAll ELSE UrlPublished
           bookings == IF role = "participant"
                         THEN Send(inflight, Msg("fetchParticipantBookings", UrlBookings, "pending", NullRec))
                         ELSE inflight
       IN /\ eventsPage' = [eventsPage EXCEPT !.userRole = role, !.loading = TRUE]
          /\ inflight' = Send(bookings, Msg("fetchEvents", url, "pending", NullRec))
    /\ UNCHANGED EventsFrame

\* data.events || data
EventsOf(data) == IF "events" \in DOMAIN data THEN data.events ELSE data.array

\* fetchEvents after its await
FetchEventsResponse(res) ==
    /\ page = "EventsPage"
    /\ res \in Responses("fetchEvents")
    /\ eventsPage' = IF res.status = "ok"
                       THEN [eventsPage EXCEPT !.events = EventsOf(res.body), !.loading = FALSE]
                       ELSE [eventsPage EXCEPT !.toast = Toast("error"), !.loading = FALSE]
    /\ inflight' = Receive(res)
    /\ UNCHANGED <<mounted, EventsFrame>>

\* fetchParticipantBookings after its await
ParticipantBookingsResponse(res) ==
    /\ page = "EventsPage"
    /\ res \in Responses("fetchParticipantBookings")
    /\ eventsPage' = IF res.status = "ok"
                       THEN [eventsPage EXCEPT
                               !.bookedEventIds = {res.body[i] : i \in 1..Len(res.body)}]
                       ELSE eventsPage
    /\ inflight' = Receive(res)
    /\ UNCHANGED <<mounted, EventsFrame>>

\* String.prototype.toLowerCase, character by character
LowerChar(c) == IF c = "A" THEN "a" ELSE IF c = "B" THEN "b" ELSE c

toLowerCase(str) == [i \in 1..Len(str) |-> LowerChar(str[i])]

\* String.prototype.includes
includes(str, search) ==
    \E start \in 0..(Len(str) - Len(search)) :
        SubSeq(str, start + 1, start + Len(search)) = search

\* the comparison with searchLocation as typed
matchesLocationAsTyped(event) ==
    includes(toLowerCase(event.address), eventsPage.searchLocation)

matchesLocation(event) ==
    includes(toLowerCase(event.address), toLowerCase(eventsPage.searchLocation))

matchesDate(event) ==
    IF eventsPage.selectedDate # "" THEN event.event_date = eventsPage.selectedDate ELSE TRUE

EventMatches(event) == matchesLocation(event) /\ matchesDate(event)

\* computed at every render
filteredEvents == SelectSeq(eventsPage.events, EventMatches)

\* the inputs are rendered also while loading
\* what one key stroke makes of the input's value
Edits(str) ==
    {Append(str, c) : c \in IF Len(str) < MaxLen THEN Alphabet ELSE {}}
        \cup (IF str = <<>> THEN {} ELSE {SubSeq(str, 1, Len(str) - 1)})

SetSearchLocation(value) ==
    /\ page = "EventsPage"
    /\ mounted
    /\ eventsPage' = [eventsPage EXCEPT !.searchLocation = value]
    /\ UNCHANGED <<inflight, mounted, EventsFrame>>

SetSelectedDate(value) ==
    /\ page = "EventsPage"
    /\ mounted
    /\ eventsPage' = [eventsPage EXCEPT !.selectedDate = value]
    /\ UNCHANGED <<inflight, mounted, EventsFrame>>

\* the Clear Filters button of the empty list
ClearFilters ==
    /\ page = "EventsPage"
    /\ ~eventsPage.loading
    /\ Len(filteredEvents) = 0
    /\ eventsPage.searchLocation # <<>> \/ eventsPage.selectedDate # ""
    /\ eventsPage' = [eventsPage EXCEPT !.searchLocation = <<>>, !.selectedDate = ""]
    /\ UNCHANGED <<inflight, mounted, EventsFrame>>

EventsCloseToast ==
    /\ page = "EventsPage"
    /\ eventsPage.toast.show
    /\ eventsPage' = [eventsPage EXCEPT !.toast.show = FALSE]
    /\ UNCHANGED <<inflight, mounted, EventsFrame>>

EventsNext ==
    \/ EventsMount
    \/ \E res \in BagToSet(inflight) : FetchEventsResponse(res)
    \/ \E res \in BagToSet(inflight) : ParticipantBookingsResponse(res)
    \/ \E value \in Edits(eventsPage.searchLocation) : SetSearchLocation(value)
    \/ \E value \in Dates \cup {""} : SetSelectedDate(value)
    \/ ClearFilters
    \/ EventsCloseToast

----------------------------------------------------------------------------
(* MyBookingsPage *)

\* An instant is a day and whether the clock is past that day's midnight.
\* new Date("yyyy-mm-dd") is the midnight that starts the day.
Days == 2..4

Instants == [day : Days, past_midnight : BOOLEAN]

\* new Date(event_date) < instant
DateBefore(event_date, instant) ==
    \/ event_date < instant.day
    \/ event_date = instant.day /\ instant.past_midnight

\* today = new Date(); today.setHours(0, 0, 0, 0)
Midnight(instant) == [day |-> instant.day, past_midnight |-> FALSE]

Booking(id, status, date) ==
    [id |-> id, booking_status |-> status, cancelled_at |-> <<>>,
     event |-> [event_date |-> date]]

\* the bookings of the participant when the page opens
InitialServerBookings ==
    {<<Booking("B1", s1, 2), Booking("B2", s2, 3)>> :
        s1 \in {"confirmed", "cancelled"}, s2 \in {"confirmed", "cancelled"}}

MyBookingsPageInit ==
    [ bookings |-> <<>>,
      filteredBookings |-> <<>>,
      loading |-> TRUE,
      cancelingIds |-> {},
      activeFilter |-> "all",
      showQRModal |-> FALSE,
      selectedBooking |-> NullRec,
      toast |-> InitialToast ]

FilterTypes == {"all", "upcoming", "past", "cancelled"}

UrlCancel == "POST /participant/bookings/{id}/cancel"

\* the upcoming filter with a strict comparison
IsUpcomingStrict(b, today) ==
    ~DateBefore(b.event.event_date, today) /\ b.event.event_date # today.day
        /\ b.booking_status # "cancelled"

IsUpcoming(b, today) ==
    ~DateBefore(b.event.event_date, today) /\ b.booking_status # "cancelled"

IsPast(b, today) ==
    DateBefore(b.event.event_date, today) /\ b.booking_status # "cancelled"

IsCancelled(b) == b.booking_status = "cancelled"

\* filterBookings: the list it hands to setFilteredBookings
Filtered(bookings, activeFilter, instant) ==
    LET today == Midnight(instant)
        upcoming(b) == IsUpcoming(b, today)
        past(b) == IsPast(b, today)
    IN CASE activeFilter = "upcoming" -> SelectSeq(bookings, upcoming)
         [] activeFilter = "past" -> SelectSeq(bookings, past)
         [] activeFilter = "cancelled" -> SelectSeq(bookings, IsCancelled)
         [] OTHER -> bookings

\* fetchBookings up to its await; without a token it redirects to the login
\* page and returns
fetchBookings(bag) ==
    IF localStorage.access_token = NULL
        THEN bag
        ELSE Send(bag, Msg("fetchBookings", UrlBookings, "pending", NullRec))

\* fetchBookings without a token: router.push('/auth/participant/login')
fetchBookingsRedirect ==
    IF localStorage.access_token = NULL THEN "/auth/participant/login" ELSE redirect

\* the two effects of the first commit: fetchBookings(), then filterBookings()
MyBookingsMount ==
    /\ page = "MyBookingsPage"
    /\ ~mounted
    /\ mounted' = TRUE
    /\ inflight' = fetchBookings(inflight)
    /\ redirect' = fetchBookingsRedirect
    /\ myBookingsPage' = [myBookingsPage EXCEPT
                            !.filteredBookings = Filtered(myBookingsPage.bookings,
                                                          myBookingsPage.activeFilter, now)]
    /\ UNCHANGED <<MyBookingsFrame, MyBookingsEnv>>

\* a continuation of fetchBookings that does not leave the filtering to the effect
FetchBookingsResponseNoEffect(res) ==
    /\ page = "MyBookingsPage"
    /\ ~pendingEffect
    /\ res \in Responses("fetchBookings")
    /\ IF res.status = "ok"
         THEN myBookingsPage' = [myBookingsPage EXCEPT !.bookings = res.body,
                                                       !.filteredBookings = res.body,
                                                       !.loading = FALSE]
         ELSE myBookingsPage' = [myBookingsPage EXCEPT !.toast = Toast("error"),
                                                       !.loading = FALSE]
    /\ inflight' = Receive(res)
    /\ UNCHANGED <<MyBookingsFrame, redirect, serverBookings, timers, cancelCount, mounted,
                   pendingEffect>>

\* fetchBookings after its await
FetchBookingsResponse(res) ==
    /\ page = "MyBookingsPage"
    /\ ~pendingEffect
    /\ res \in Responses("fetchBookings")
    /\ IF res.status = "ok"
         THEN /\ myBookingsPage' = [myBookingsPage EXCEPT !.bookings = res.body,
                                                         !.filteredBookings = res.body,
                                                         !.loading = FALSE]
              /\ pendingEffect' = TRUE
         ELSE /\ myBookingsPage' = [myBookingsPage EXCEPT !.toast = Toast("error"),
                                                         !.loading = FALSE]
              /\ UNCHANGED pendingEffect
    /\ inflight' = Receive(res)
    /\ UNCHANGED <<MyBookingsFrame, redirect, serverBookings, timers, cancelCount, mounted>>

\* useEffect(() => filterBookings(), [activeFilter, bookings]); React runs it
\* before it handles anything else
FilterBookingsEffect ==
    /\ page = "MyBookingsPage"
    /\ pendingEffect
    /\ pendingEffect' = FALSE
    /\ myBookingsPage' = [myBookingsPage EXCEPT
                            !.filteredBookings = Filtered(myBookingsPage.bookings,
                                                          myBookingsPage.activeFilter, now)]
    /\ UNCHANGED <<MyBookingsFrame, redirect, serverBookings, timers, cancelCount, mounted, inflight>>

\* the numbers on the filter tabs, computed at render with new Date()
upcomingCount ==
    LET upcoming(b) == ~DateBefore(b.event.event_date, now) /\ b.booking_status # "cancelled"
    IN Len(SelectSeq(myBookingsPage.bookings, upcoming))

pastCount ==
    LET past(b) == DateBefore(b.event.event_date, now) /\ b.booking_status # "cancelled"
    IN Len(SelectSeq(myBookingsPage.bookings, past))

cancelledCount == Len(SelectSeq(myBookingsPage.bookings, IsCancelled))

TabCount(f) ==
    CASE f = "all" -> Len(myBookingsPage.bookings)
      [] f = "upcoming" -> upcomingCount
      [] f = "past" -> pastCount
      [] f = "cancelled" -> cancelledCount

\* the list and its buttons are rendered, and no modal covers them
ListRendered ==
    /\ page = "MyBookingsPage"
    /\ ~pendingEffect
    /\ ~myBookingsPage.loading
    /\ ~(myBookingsPage.showQRModal /\ myBookingsPage.selectedBooking # NullRec)

SetActiveFilter(f) ==
    /\ ListRendered
    /\ myBookingsPage' = [myBookingsPage EXCEPT !.activeFilter = f]
    /\ pendingEffect' = (f # myBookingsPage.activeFilter)
    /\ UNCHANGED <<MyBookingsFrame, redirect, serverBookings, timers, cancelCount, mounted, inflight>>

\* the QR and Cancel buttons of a listed booking: !isCancelled && !isPast,
\* with isPast = eventDate < new Date()
HasActions(booking) ==
    /\ booking.booking_status # "cancelled"
    /\ ~DateBefore(booking.event.event_date, now)

\* the Cancel button: handleCancelBooking up to its await
handleCancelBooking(i) ==
    /\ ListRendered
    /\ i \in 1..Len(myBookingsPage.filteredBookings)
    /\ LET booking == myBookingsPage.filteredBookings[i]
       IN /\ HasActions(booking)
          /\ booking.id \notin myBookingsPage.cancelingIds
          /\ cancelCount < MaxCancels
          /\ cancelCount' = cancelCount + 1
          /\ myBookingsPage' = [myBookingsPage EXCEPT
                                  !.cancelingIds = myBookingsPage.cancelingIds \cup {booking.id}]
          /\ inflight' = Send(inflight, Msg("handleCancelBooking", UrlCancel, "pending",
                                            [bookingId |-> booking.id]))
    /\ UNCHANGED <<MyBookingsFrame, redirect, serverBookings, timers, pendingEffect, mounted>>

\* an updater that marks every booking
MarkAllCancelled(prev, bookingId) ==
    [i \in 1..Len(prev) |->
        [prev[i] EXCEPT !.booking_status = "cancelled", !.cancelled_at = <<now>>]]

\* the updater given to setBookings after a successful cancel
MarkCancelled(prev, bookingId) ==
    [i \in 1..Len(prev) |->
        IF prev[i].id = bookingId
          THEN [prev[i] EXCEPT !.booking_status = "cancelled", !.cancelled_at = <<now>>]
          ELSE prev[i]]

\* a continuation of handleCancelBooking that clears the id only after success
CancelResponseNoFinally(res) ==
    /\ page = "MyBookingsPage"
    /\ ~pendingEffect
    /\ res \in Responses("handleCancelBooking")
    /\ IF res.status = "ok"
         THEN /\ myBookingsPage' = [myBookingsPage EXCEPT
                    !.toast = Toast("success"),
                    !.bookings = MarkCancelled(myBookingsPage.bookings, res.body.bookingId),
                    !.cancelingIds = myBookingsPage.cancelingIds \ {res.body.bookingId}]
              /\ timers' = timers + 1
              /\ pendingEffect' = TRUE
         ELSE /\ myBookingsPage' = [myBookingsPage EXCEPT !.toast = Toast("error")]
              /\ UNCHANGED <<timers, pendingEffect>>
    /\ inflight' = Receive(res)
    /\ UNCHANGED <<MyBookingsFrame, redirect, serverBookings, cancelCount, mounted>>

\* handleCancelBooking after its await
CancelResponse(res) ==
    /\ page = "MyBookingsPage"
    /\ ~pendingEffect
    /\ res \in Responses("handleCancelBooking")
    /\ IF res.status = "ok"
         THEN /\ myBookingsPage' = [myBookingsPage EXCEPT
                    !.toast = Toast("success"),
                    !.bookings = MarkCancelled(myBookingsPage.bookings, res.body.bookingId),
                    !.cancelingIds = myBookingsPage.cancelingIds \ {res.body.bookingId}]
              /\ timers' = timers + 1
              /\ pendingEffect' = TRUE
         ELSE /\ myBookingsPage' = [myBookingsPage EXCEPT
                    !.toast = Toast("error"),
                    !.cancelingIds = myBookingsPage.cancelingIds \ {res.body.bookingId}]
              /\ UNCHANGED <<timers, pendingEffect>>
    /\ inflight' = Receive(res)
    /\ UNCHANGED <<MyBookingsFrame, redirect, serverBookings, cancelCount, mounted>>

\* the timeout set by a successful cancel expires
RefreshTimer ==
    /\ page = "MyBookingsPage"
    /\ ~pendingEffect
    /\ timers > 0
    /\ timers' = timers - 1
    /\ inflight' = fetchBookings(inflight)
    /\ redirect' = fetchBookingsRedirect
    /\ UNCHANGED <<MyBookingsFrame, serverBookings, pendingEffect, cancelCount, mounted,
                   myBookingsPage>>

handleShowQR(i) ==
    /\ ListRendered
    /\ i \in 1..Len(myBookingsPage.filteredBookings)
    /\ HasActions(myBookingsPage.filteredBookings[i])
    /\ myBookingsPage' = [myBookingsPage EXCEPT
                            !.selectedBooking = myBookingsPage.filteredBookings[i],
                            !.showQRModal = TRUE]
    /\ UNCHANGED <<MyBookingsFrame, redirect, MyBookingsEnv, mounted, inflight>>

\* the modal's Close button and backdrop
CloseQRModal ==
    /\ page = "MyBookingsPage"
    /\ ~pendingEffect
    /\ ~myBookingsPage.loading
    /\ myBookingsPage.showQRModal
    /\ myBookingsPage.selectedBooking # NullRec
    /\ myBookingsPage' = [myBookingsPage EXCEPT !.showQRModal = FALSE]
    /\ UNCHANGED <<MyBookingsFrame, redirect, MyBookingsEnv, mounted, inflight>>

MyBookingsCloseToast ==
    /\ ListRendered
    /\ myBookingsPage.toast.show
    /\ myBookingsPage' = [myBookingsPage EXCEPT !.toast.show = FALSE]
    /\ UNCHANGED <<MyBookingsFrame, redirect, MyBookingsEnv, mounted, inflight>>

MyBookingsNext ==
    \/ MyBookingsMount
    \/ \E res \in BagToSet(inflight) : FetchBookingsResponse(res)
    \/ FilterBookingsEffect
    \/ \E f \in FilterTypes : SetActiveFilter(f)
    \/ \E i \in 1..Len(myBookingsPage.filteredBookings) : handleCancelBooking(i)
    \/ \E res \in BagToSet(inflight) : CancelResponse(res)
    \/ RefreshTimer
    \/ \E i \in 1..Len(myBookingsPage.filteredBookings) : handleShowQR(i)
    \/ CloseQRModal
    \/ MyBookingsCloseToast

----------------------------------------------------------------------------
(* ViewResultPage *)

OtpLength == 6

\* what a key press can put into the input: a digit or something else
Keys == {"1", "x"}

IsDigit(c) == c \in {"0", "1", "2", "3", "4", "5", "6", "7", "8", "9"}

\* value.replace(/\D/g, '')
DigitsOnly(value) == SelectSeq(value, IsDigit)

ResultDetails == {[result_category |-> c] : c \in {"Normal", "Abnormal"}}

ViewResultPageInit ==
    [ step |-> "request-otp",
      otp |-> <<>>,
      result |-> NullRec,
      loading |-> FALSE,
      phoneNumber |-> "",
      toast |-> InitialToast ]

UrlRequestOtp == "POST /participant/results/{id}/request-otp"

UrlView == "POST /participant/results/{id}/view"

\* Send Verification Code and Resend code: handleRequestOTP up to its await
handleRequestOTP ==
    /\ page = "ViewResultPage"
    /\ viewResultPage.result = NullRec
    /\ ~viewResultPage.loading
    /\ viewResultPage' = [viewResultPage EXCEPT !.loading = TRUE]
    /\ inflight' = Send(inflight, Msg("handleRequestOTP", UrlRequestOtp, "pending", NullRec))
    /\ UNCHANGED <<ViewResultFrame, mounted>>

\* handleRequestOTP after its await
RequestOTPResponse(res) ==
    /\ page = "ViewResultPage"
    /\ res \in Responses("handleRequestOTP")
    /\ viewResultPage' =
         IF res.status = "ok"
           THEN [viewResultPage EXCEPT !.phoneNumber = res.body.phone_number,
                                       !.step = "view-result",
                                       !.toast = Toast("success"),
                                       !.loading = FALSE]
           ELSE [viewResultPage EXCEPT !.toast = Toast("error"), !.loading = FALSE]
    /\ inflight' = Receive(res)
    /\ UNCHANGED <<ViewResultFrame, mounted>>

OtpInputRendered ==
    /\ page = "ViewResultPage"
    /\ viewResultPage.result = NullRec
    /\ viewResultPage.step = "view-result"

\* a key typed into the input (maxLength 6), then onChange
TypeOtp(key) ==
    /\ OtpInputRendered
    /\ Len(viewResultPage.otp) < OtpLength
    /\ viewResultPage' = [viewResultPage EXCEPT !.otp = DigitsOnly(Append(viewResultPage.otp, key))]
    /\ UNCHANGED <<ViewResultFrame, mounted, inflight>>

\* backspace, then onChange
EraseOtp ==
    /\ OtpInputRendered
    /\ Len(viewResultPage.otp) > 0
    /\ viewResultPage' = [viewResultPage EXCEPT
                            !.otp = DigitsOnly(SubSeq(viewResultPage.otp, 1, Len(viewResultPage.otp) - 1))]
    /\ UNCHANGED <<ViewResultFrame, mounted, inflight>>

\* the form's submit (button disabled while loading or otp.length !== 6):
\* handleVerifyOTP up to its await
handleVerifyOTP ==
    /\ OtpInputRendered
    /\ ~viewResultPage.loading
    /\ Len(viewResultPage.otp) = OtpLength
    /\ viewResultPage' = [viewResultPage EXCEPT !.loading = TRUE]
    /\ inflight' = Send(inflight, Msg("handleVerifyOTP", UrlView, "pending",
                                      [otp_code |-> viewResultPage.otp]))
    /\ UNCHANGED <<ViewResultFrame, mounted>>

\* a continuation that does not test res.ok
VerifyOTPUnchecked(res) ==
    [viewResultPage EXCEPT !.result = IF res.status = "ok" THEN res.body ELSE [result_category |-> "error"],
                           !.toast = Toast("success"),
                           !.loading = FALSE]

\* handleVerifyOTP after its await
VerifyOTPContinuation(res) ==
    IF res.status = "ok"
      THEN [viewResultPage EXCEPT !.result = res.body,
                                  !.toast = Toast("success"),
                                  !.loading = FALSE]
      ELSE [viewResultPage EXCEPT !.toast = Toast("error"), !.loading = FALSE]

VerifyOTPResponse(res) ==
    /\ page = "ViewResultPage"
    /\ res \in Responses("handleVerifyOTP")
    /\ viewResultPage' = VerifyOTPContinuation(res)
    /\ inflight' = Receive(res)
    /\ UNCHANGED <<ViewResultFrame, mounted>>

ViewResultCloseToast ==
    /\ page = "ViewResultPage"
    /\ viewResultPage.toast.show
    /\ viewResultPage' = [viewResultPage EXCEPT !.toast.show = FALSE]
    /\ UNCHANGED <<ViewResultFrame, mounted, inflight>>

ViewResultNext ==
    \/ handleRequestOTP
    \/ \E res \in BagToSet(inflight) : RequestOTPResponse(res)
    \/ \E key \in Keys : TypeOtp(key)
    \/ EraseOtp
    \/ handleVerifyOTP
    \/ \E res \in BagToSet(inflight) : VerifyOTPResponse(res)
    \/ ViewResultCloseToast

----------------------------------------------------------------------------
(* MyResultsPage *)

\* the results the backend knows
ResultCatalogue ==
    { [id |-> "R1", event_name |-> <<"A", "b">>, result_category |-> <<"a">>,
       result_available |-> TRUE, uploaded_at |-> 2],
      [id |-> "R2", event_name |-> <<"b">>, result_category |-> <<"B", "a">>,
       result_available |-> FALSE, uploaded_at |-> 3],
      [id |-> "R3", event_name |-> <<"a">>, result_category |-> <<"b">>,
       result_available |-> TRUE, uploaded_at |-> 3] }

ResultLists ==
    UNION {{l \in [1..n -> ResultCatalogue] : IsInjective(l)} : n \in 0..MaxResults}

MyResultsPageInit ==
    [ results |-> <<>>,
      filteredResults |-> <<>>,
      loading |-> TRUE,
      searchTerm |-> <<>>,
      activeFilter |-> "all",
      toast |-> InitialToast ]

ResultFilterTypes == {"all", "available", "pending"}

UrlResults == "GET /participant/results"

\* a search that looks at event_name only
filterResultsByNameOnly ==
    LET available(r) == r.result_available
        pending(r) == ~r.result_available
        byStatus == IF myResultsPage.activeFilter = "available"
                      THEN SelectSeq(myResultsPage.results, available)
                      ELSE IF myResultsPage.activeFilter = "pending"
                             THEN SelectSeq(myResultsPage.results, pending)
                             ELSE myResultsPage.results
        term == toLowerCase(myResultsPage.searchTerm)
        matches(r) == includes(toLowerCase(r.event_name), term)
    IN IF myResultsPage.searchTerm # <<>> THEN SelectSeq(byStatus, matches) ELSE byStatus

\* filterResults: the list it hands to setFilteredResults
filterResults ==
    LET available(r) == r.result_available
        pending(r) == ~r.result_available
        byStatus == IF myResultsPage.activeFilter = "available"
                      THEN SelectSeq(myResultsPage.results, available)
                      ELSE IF myResultsPage.activeFilter = "pending"
                             THEN SelectSeq(myResultsPage.results, pending)
                             ELSE myResultsPage.results
        term == toLowerCase(myResultsPage.searchTerm)
        matches(r) == \/ includes(toLowerCase(r.event_name), term)
                      \/ includes(toLowerCase(r.result_category), term)
    IN IF myResultsPage.searchTerm # <<>> THEN SelectSeq(byStatus, matches) ELSE byStatus

\* the two effects of the first commit: fetchResults() up to its await, then
\* filterResults()
MyResultsMount ==
    /\ page = "MyResultsPage"
    /\ ~mounted
    /\ mounted' = TRUE
    /\ inflight' = Send(inflight, Msg("fetchResults", UrlResults, "pending", NullRec))
    /\ myResultsPage' = [myResultsPage EXCEPT !.filteredResults = filterResults]
    /\ UNCHANGED <<MyResultsFrame, pendingEffect>>

\* fetchResults after its await
FetchResultsResponse(res) ==
    /\ page = "MyResultsPage"
    /\ ~pendingEffect
    /\ res \in Responses("fetchResults")
    /\ IF res.status = "ok"
         THEN /\ myResultsPage' = [myResultsPage EXCEPT !.results = res.body,
                                                       !.filteredResults = res.body,
                                                       !.loading = FALSE]
              /\ pendingEffect' = TRUE
         ELSE /\ myResultsPage' = [myResultsPage EXCEPT !.toast = Toast("error"),
                                                       !.loading = FALSE]
              /\ UNCHANGED pendingEffect
    /\ inflight' = Receive(res)
    /\ UNCHANGED <<MyResultsFrame, mounted>>

\* useEffect(() => filterResults(), [searchTerm, activeFilter, results])
FilterResultsEffect ==
    /\ page = "MyResultsPage"
    /\ pendingEffect
    /\ pendingEffect' = FALSE
    /\ myResultsPage' = [myResultsPage EXCEPT !.filteredResults = filterResults]
    /\ UNCHANGED <<MyResultsFrame, mounted, inflight>>

ResultsRendered ==
    /\ page = "MyResultsPage"
    /\ ~pendingEffect
    /\ ~myResultsPage.loading

\* the search input's onChange
SetSearchTerm(value) ==
    /\ ResultsRendered
    /\ Len(myResultsPage.results) > 0
    /\ myResultsPage' = [myResultsPage EXCEPT !.searchTerm = value]
    /\ pendingEffect' = (value # myResultsPage.searchTerm)
    /\ UNCHANGED <<MyResultsFrame, mounted, inflight>>

\* the filter buttons
SetResultsFilter(f) ==
    /\ ResultsRendered
    /\ Len(myResultsPage.results) > 0
    /\ myResultsPage' = [myResultsPage EXCEPT !.activeFilter = f]
    /\ pendingEffect' = (f # myResultsPage.activeFilter)
    /\ UNCHANGED <<MyResultsFrame, mounted, inflight>>

MyResultsCloseToast ==
    /\ ResultsRendered
    /\ myResultsPage.toast.show
    /\ myResultsPage' = [myResultsPage EXCEPT !.toast.show = FALSE]
    /\ UNCHANGED <<MyResultsFrame, mounted, inflight, pendingEffect>>

MyResultsNext ==
    \/ MyResultsMount
    \/ \E res \in BagToSet(inflight) : FetchResultsResponse(res)
    \/ FilterResultsEffect
    \/ \E value \in Edits(myResultsPage.searchTerm) : SetSearchTerm(value)
    \/ \E f \in ResultFilterTypes : SetResultsFilter(f)
    \/ MyResultsCloseToast

----------------------------------------------------------------------------
(* ParticipantDashboardPage *)

DashboardPageInit ==
    [ upcomingEvents |-> <<>>,
      myBookings |-> <<>>,
      recentResults |-> <<>>,
      loading |-> TRUE,
      toast |-> InitialToast ]

\* the published events the backend lists, by id and date
DashboardEventCatalogue == {[id |-> "E1", event_date |-> 3], [id |-> "E2", event_date |-> 2],
                            [id |-> "E3", event_date |-> 3]}

DashboardEventLists ==
    UNION {{l \in [1..n -> DashboardEventCatalogue] : IsInjective(l)} : n \in 0..MaxEvents}

UrlDashboardEvents == "GET /events?published_only=true (dashboard)"

Range(s) == {s[i] : i \in DOMAIN s}

\* Array.prototype.sort with a comparator on a numeric key: ascending, stable
SortByKey(s, key) ==
    LET rank(i) == Cardinality({j \in 1..Len(s) : \/ key[s[j]] < key[s[i]]
                                                    \/ (key[s[j]] = key[s[i]] /\ j < i)}) + 1
    IN [p \in 1..Len(s) |-> s[CHOOSE i \in 1..Len(s) : rank(i) = p]]

\* slice(0, n)
Slice(s, n) == SubSeq(s, 1, IF Len(s) < n THEN Len(s) ELSE n)

UpcomingEvents(eventsData) ==
    LET upcoming(e) == ~DateBefore(e.event_date, now)
        date == [e \in Range(eventsData) |-> e.event_date]
    IN Slice(SortByKey(SelectSeq(eventsData, upcoming), date), 3)

UpcomingBookings(bookingsData) ==
    LET upcoming(b) == ~DateBefore(b.event.event_date, now) /\ b.booking_status # "cancelled"
        date == [b \in Range(bookingsData) |-> b.event.event_date]
    IN Slice(SortByKey(SelectSeq(bookingsData, upcoming), date), 2)

RecentResults(resultsData) ==
    LET available(r) == r.result_available
        age == [r \in Range(resultsData) |-> 0 - r.uploaded_at]
    IN Slice(SortByKey(SelectSeq(resultsData, available), age), 2)

\* useEffect: fetchDashboardData() up to its first await
DashboardMount ==
    /\ page = "ParticipantDashboardPage"
    /\ ~mounted
    /\ mounted' = TRUE
    /\ inflight' = Send(inflight, Msg("fetchDashboardData", UrlDashboardEvents, "pending", NullRec))
    /\ UNCHANGED <<DashboardFrame, dashboardPage>>

\* a catch of fetchDashboardData with no finally after it
DashboardFailsNoFinally == [dashboardPage EXCEPT !.toast = Toast("error")]

\* catch and finally of fetchDashboardData
DashboardFails == [dashboardPage EXCEPT !.toast = Toast("error"), !.loading = FALSE]

\* after the first await: the events, then the bookings request
DashboardEventsResponse(res) ==
    /\ page = "ParticipantDashboardPage"
    /\ res \in Responses("fetchDashboardData")
    /\ res.url = UrlDashboardEvents
    /\ IF res.status = "throw"
         THEN /\ dashboardPage' = DashboardFails
              /\ inflight' = Receive(res)
         ELSE /\ dashboardPage' =
                   IF res.status = "ok"
                     THEN [dashboardPage EXCEPT !.upcomingEvents = UpcomingEvents(res.body)]
                     ELSE dashboardPage
              /\ inflight' = Send(Receive(res),
                                  Msg("fetchDashboardData", UrlBookings, "pending", NullRec))
    /\ UNCHANGED <<DashboardFrame, mounted>>

\* after the second await: the bookings, then the results request
DashboardBookingsResponse(res) ==
    /\ page = "ParticipantDashboardPage"
    /\ res \in Responses("fetchDashboardData")
    /\ res.url = UrlBookings
    /\ IF res.status = "throw"
         THEN /\ dashboardPage' = DashboardFails
              /\ inflight' = Receive(res)
         ELSE /\ dashboardPage' =
                   IF res.status = "ok"
                     THEN [dashboardPage EXCEPT !.myBookings = UpcomingBookings(res.body)]
                     ELSE dashboardPage
              /\ inflight' = Send(Receive(res),
                                  Msg("fetchDashboardData", UrlResults, "pending", NullRec))
    /\ UNCHANGED <<DashboardFrame, mounted>>

\* after the third await: the results, then finally
DashboardResultsResponse(res) ==
    /\ page = "ParticipantDashboardPage"
    /\ res \in Responses("fetchDashboardData")
    /\ res.url = UrlResults
    /\ dashboardPage' =
         IF res.status = "throw"
           THEN DashboardFails
           ELSE IF res.status = "ok"
                  THEN [dashboardPage EXCEPT !.recentResults = RecentResults(res.body),
                                             !.loading = FALSE]
                  ELSE [dashboardPage EXCEPT !.loading = FALSE]
    /\ inflight' = Receive(res)
    /\ UNCHANGED <<DashboardFrame, mounted>>

DashboardCloseToast ==
    /\ page = "ParticipantDashboardPage"
    /\ ~dashboardPage.loading
    /\ dashboardPage.toast.show
    /\ dashboardPage' = [dashboardPage EXCEPT !.toast.show = FALSE]
    /\ UNCHANGED <<DashboardFrame, mounted, inflight>>

DashboardNext ==
    \/ DashboardMount
    \/ \E res \in BagToSet(inflight) : DashboardEventsResponse(res)
    \/ \E res \in BagToSet(inflight) : DashboardBookingsResponse(res)
    \/ \E res \in BagToSet(inflight) : DashboardResultsResponse(res)
    \/ DashboardCloseToast

----------------------------------------------------------------------------
(* AdminDashboardPage *)

InitialStats == [active_events |-> 0, total_participants |-> 0,
                 tests_completed |-> 0, bookings_this_month |-> 0]

AdminDashboardPageInit ==
    [ stats |-> InitialStats,
      recentActivity |-> <<>>,
      bookingTrends |-> <<>>,
      loading |-> TRUE,
      toast |-> InitialToast ]

UrlStats == "GET /admin/dashboard/stats"
UrlRecentActivity == "GET /admin/dashboard/recent-activity"
UrlBookingTrends == "GET /admin/dashboard/booking-trends"

StatsBodies == {[active_events |-> 1, total_participants |-> 2,
                 tests_completed |-> 1, bookings_this_month |-> 2]}

ActivityBodies == {[activities |-> a] : a \in {<<>>, <<"booking">>, <<"booking", "result">>}}

TrendsBodies == {[trends |-> t] : t \in {<<>>, <<1, 2>>}}

\* useEffect: fetchDashboardData() up to its first await
AdminDashboardMount ==
    /\ page = "AdminDashboardPage"
    /\ ~mounted
    /\ mounted' = TRUE
    /\ inflight' = Send(inflight, Msg("fetchAdminDashboardData", UrlStats, "pending", NullRec))
    /\ UNCHANGED <<AdminDashboardFrame, adminDashboardPage>>

\* catch and finally of fetchDashboardData
AdminDashboardFails == [adminDashboardPage EXCEPT !.toast = Toast("error"), !.loading = FALSE]

\* after the first await: the statistics, then the activity request
StatsResponse(res) ==
    /\ page = "AdminDashboardPage"
    /\ res \in Responses("fetchAdminDashboardData")
    /\ res.url = UrlStats
    /\ IF res.status = "throw"
         THEN /\ adminDashboardPage' = AdminDashboardFails
              /\ inflight' = Receive(res)
         ELSE /\ adminDashboardPage' =
                   IF res.status = "ok"
                     THEN [adminDashboardPage EXCEPT !.stats = res.body]
                     ELSE adminDashboardPage
              /\ inflight' = Send(Receive(res),
                                  Msg("fetchAdminDashboardData", UrlRecentActivity, "pending", NullRec))
    /\ UNCHANGED <<AdminDashboardFrame, mounted>>

\* after the second await: the activity, then the trends request
ActivityResponse(res) ==
    /\ page = "AdminDashboardPage"
    /\ res \in Responses("fetchAdminDashboardData")
    /\ res.url = UrlRecentActivity
    /\ IF res.status = "throw"
         THEN /\ adminDashboardPage' = AdminDashboardFails
              /\ inflight' = Receive(res)
         ELSE /\ adminDashboardPage' =
                   IF res.status = "ok"
                     THEN [adminDashboardPage EXCEPT !.recentActivity = res.body.activities]
                     ELSE adminDashboardPage
              /\ inflight' = Send(Receive(res),
                                  Msg("fetchAdminDashboardData", UrlBookingTrends, "pending", NullRec))
    /\ UNCHANGED <<AdminDashboardFrame, mounted>>

\* after the third await: the trends, then finally
TrendsResponse(res) ==
    /\ page = "AdminDashboardPage"
    /\ res \in Responses("fetchAdminDashboardData")
    /\ res.url = UrlBookingTrends
    /\ adminDashboardPage' =
         IF res.status = "throw"
           THEN AdminDashboardFails
           ELSE IF res.status = "ok"
                  THEN [adminDashboardPage EXCEPT !.bookingTrends = res.body.trends,
                                                  !.loading = FALSE]
                  ELSE [adminDashboardPage EXCEPT !.loading = FALSE]
    /\ inflight' = Receive(res)
    /\ UNCHANGED <<AdminDashboardFrame, mounted>>

AdminDashboardCloseToast ==
    /\ page = "AdminDashboardPage"
    /\ ~adminDashboardPage.loading
    /\ adminDashboardPage.toast.show
    /\ adminDashboardPage' = [adminDashboardPage EXCEPT !.toast.show = FALSE]
    /\ UNCHANGED <<AdminDashboardFrame, mounted, inflight>>

AdminDashboardNext ==
    \/ AdminDashboardMount
    \/ \E res \in BagToSet(inflight) : StatsResponse(res)
    \/ \E res \in BagToSet(inflight) : ActivityResponse(res)
    \/ \E res \in BagToSet(inflight) : TrendsResponse(res)
    \/ AdminDashboardCloseToast

----------------------------------------------------------------------------
(* AdminEventsPage *)

\* alert is the message of the last window.alert, "" before any; confirm is
\* the answer to the last window.confirm, null before any
AdminEventsPageInit ==
    [ events |-> <<>>,
      loading |-> TRUE,
      error |-> "",
      alert |-> "",
      confirm |-> NULL ]

UrlAdminEvents == "GET /events?published_only=false (admin)"
UrlDelete == "DELETE /events/{eventId}"

\* fetchEvents() up to its await
AdminFetchEvents(bag) == Send(bag, Msg("adminFetchEvents", UrlAdminEvents, "pending", NullRec))

\* useEffect: fetchEvents()
AdminEventsMount ==
    /\ page = "AdminEventsPage"
    /\ ~mounted
    /\ mounted' = TRUE
    /\ inflight' = AdminFetchEvents(inflight)
    /\ UNCHANGED <<AdminEventsFrame, adminEventsPage>>

\* fetchEvents() after its await
AdminFetchEventsResponse(res) ==
    /\ page = "AdminEventsPage"
    /\ res \in Responses("adminFetchEvents")
    /\ adminEventsPage' =
         IF res.status = "ok"
           THEN [adminEventsPage EXCEPT !.events = res.body, !.loading = FALSE]
           ELSE [adminEventsPage EXCEPT !.error = "Failed to load events", !.loading = FALSE]
    /\ inflight' = Receive(res)
    /\ UNCHANGED <<AdminEventsFrame, mounted>>

\* the table of events is rendered
AdminEventsRendered ==
    /\ page = "AdminEventsPage"
    /\ mounted
    /\ ~adminEventsPage.loading
    /\ adminEventsPage.error = ""

\* the Delete button of an event: handleDelete(eventId) through the dialog and,
\* when the dialog was confirmed, up to its await
handleDelete(i, confirmed) ==
    /\ AdminEventsRendered
    /\ i \in DOMAIN adminEventsPage.events
    /\ BagCardinality(inflight) < MaxDeletes
    /\ adminEventsPage' = [adminEventsPage EXCEPT !.confirm = IF confirmed THEN "true" ELSE "false"]
    /\ inflight' = IF confirmed
                     THEN Send(inflight, Msg("handleDelete", UrlDelete, "pending",
                                             [eventId |-> adminEventsPage.events[i].id]))
                     ELSE inflight
    /\ UNCHANGED <<AdminEventsFrame, mounted>>

\* a continuation of handleDelete that refreshes the list whatever the outcome
handleDeleteResponseAlwaysRefetch(res) ==
    /\ page = "AdminEventsPage"
    /\ res \in Responses("handleDelete")
    /\ adminEventsPage' =
         [adminEventsPage EXCEPT !.alert = IF res.status = "ok" THEN "Event deleted successfully!"
                                           ELSE IF res.status = "notok" THEN res.body.detail
                                           ELSE "Failed to fetch"]
    /\ inflight' = AdminFetchEvents(Receive(res))
    /\ UNCHANGED <<AdminEventsFrame, mounted>>

\* handleDelete after its await
handleDeleteResponse(res) ==
    /\ page = "AdminEventsPage"
    /\ res \in Responses("handleDelete")
    /\ IF res.status = "ok"
         THEN /\ adminEventsPage' = [adminEventsPage EXCEPT !.alert = "Event deleted successfully!"]
              /\ inflight' = AdminFetchEvents(Receive(res))
         ELSE /\ adminEventsPage' =
                   [adminEventsPage EXCEPT !.alert = IF res.status = "notok" THEN res.body.detail
                                                     ELSE "Failed to fetch"]
              /\ inflight' = Receive(res)
    /\ UNCHANGED <<AdminEventsFrame, mounted>>

AdminEventsNext ==
    \/ AdminEventsMount
    \/ \E res \in BagToSet(inflight) : AdminFetchEventsResponse(res)
    \/ \E i \in 1..MaxEvents : \E confirmed \in BOOLEAN : handleDelete(i, confirmed)
    \/ \E res \in BagToSet(inflight) : handleDeleteResponse(res)

----------------------------------------------------------------------------
(* The backend, as the pages see it *)

OkBodies(req) ==
    CASE req.url = UrlEvent -> EventBodies
      [] req.url = UrlSlots -> SlotsBodies
      [] req.fn \in {"checkIfBooked", "fetchParticipantBookings"} -> BookedEventLists
      [] req.url = UrlBook -> BookingCreated
      [] req.url \in {UrlPublished, UrlAll} -> EventsBodies
      [] req.fn = "fetchBookings" -> {serverBookings}
      [] req.url = UrlRequestOtp -> {[phone_number |-> "+60"]}
      [] req.url = UrlView -> ResultDetails
      [] req.fn = "fetchResults" -> ResultLists
      [] req.url = UrlDashboardEvents -> DashboardEventLists
      [] req.fn = "fetchDashboardData" /\ req.url = UrlBookings -> {serverBookings}
      [] req.fn = "fetchDashboardData" /\ req.url = UrlResults -> ResultLists
      [] req.url = UrlStats -> StatsBodies
      [] req.url = UrlRecentActivity -> ActivityBodies
      [] req.url = UrlBookingTrends -> TrendsBodies
      [] req.url = UrlAdminEvents -> EventLists
      [] req.url = UrlDelete -> {[message |-> "deleted"]}
      [] OTHER -> {}

\* what may come back for a request: a response with res.ok, a response
\* without, or a rejected fetch
Replies(req) ==
    {Msg(req.fn, req.url, "ok", b) : b \in OkBodies(req)}
        \cup {Msg(req.fn, req.url, "notok", ErrorBody), Msg(req.fn, req.url, "throw", NullRec)}

\* the backend answers a pending request, or the fetch fails
Respond(req, res) ==
    /\ req \in BagToSet(inflight)
    /\ req.status = "pending"
    /\ req.fn # "handleCancelBooking"
    /\ res \in Replies(req)
    /\ inflight' = Send(inflight (-) SetToBag({req}), res)
    /\ UNCHANGED <<Fixed, MyBookingsEnv, redirect, mounted, Components>>

\* POST /participant/bookings/{id}/cancel: the backend cancels the booking
\* and answers ok, or refuses, or the fetch fails
RespondCancel(req, status) ==
    /\ req \in BagToSet(inflight)
    /\ req.status = "pending"
    /\ req.fn = "handleCancelBooking"
    /\ serverBookings' =
          IF status = "ok"
            THEN [i \in DOMAIN serverBookings |->
                    IF serverBookings[i].id = req.body.bookingId
                      THEN [serverBookings[i] EXCEPT !.booking_status = "cancelled",
                                                     !.cancelled_at = <<now>>]
                      ELSE serverBookings[i]]
            ELSE serverBookings
    /\ inflight' = Send(inflight (-) SetToBag({req}),
                        Msg(req.fn, req.url, status,
                            IF status = "ok" THEN [message |-> "cancelled", bookingId |-> req.body.bookingId]
                            ELSE IF status = "notok" THEN [detail |-> "error", bookingId |-> req.body.bookingId]
                            ELSE [bookingId |-> req.body.bookingId]))
    /\ UNCHANGED <<Fixed, timers, pendingEffect, cancelCount, redirect, mounted, Components>>

----------------------------------------------------------------------------
(* Claims about EventBookingPage *)

BookingInFlight == {m \in BagToSet(inflight) : m.fn = "handleBooking"}

\* a message the step has added to the network
Sent(m) == CopiesIn(m, inflight') > CopiesIn(m, inflight)

\* a message the step has taken from the network
Consumed(m) == CopiesIn(m, inflight') < CopiesIn(m, inflight)

\* the step has issued the booking POST m
PostSent(m) == m.fn = "handleBooking" /\ m.status = "pending" /\ Sent(m)

StepSequence ==
    IF bookingPage.hasTimeSlots
        THEN <<"details", "eligibility", "time-slot", "confirmation", "success">>
        ELSE <<"details", "eligibility", "confirmation", "success">>

StepIndex(s) == CHOOSE i \in 1..Len(StepSequence) : StepSequence[i] = s

\* C1: every change of currentStep goes to a neighbouring step of the linear
\* sequence details, eligibility, time-slot (with time slots only),
\* confirmation, success; success is entered from confirmation only.
C1_StepsAreNeighbours ==
    [][bookingPage'.currentStep # bookingPage.currentStep =>
          /\ \E i \in 1..Len(StepSequence) : StepSequence[i] = bookingPage.currentStep
          /\ \E i \in 1..Len(StepSequence) : StepSequence[i] = bookingPage'.currentStep
          /\ StepIndex(bookingPage'.currentStep) - StepIndex(bookingPage.currentStep) \in {-1, 1}
          /\ (bookingPage'.currentStep = "success" => bookingPage.currentStep = "confirmation")]_vars

\* C2: on the steps after eligibility all four answers are non-null, and no
\* booking POST is sent or in flight while an answer is null.
C2_EligibilityGating ==
    /\ [](bookingPage.currentStep \in {"time-slot", "confirmation", "success"} =>
             \A q \in Questions : bookingPage.eligibility[q] # NULL)
    /\ [](BookingInFlight # {} => \A q \in Questions : bookingPage.eligibility[q] # NULL)
    /\ [][\A m \in BagToSet(inflight') :
             PostSent(m) =>
                \A q \in Questions : bookingPage.eligibility[q] \in {"true", "false"}]_vars

C2_Witness ==
    /\ bookingPage.currentStep = "confirmation"
    /\ \E m \in BookingInFlight : m.status = "pending"
    /\ \A q \in Questions : bookingPage.eligibility[q] # NULL
    /\ ~isEligible

HasSlotFields(body) == {"time_slot_start", "time_slot_end"} \subseteq DOMAIN body

\* C4: with time slots, confirmation is reached only with a slot selected and
\* every booking POST carries start and end of the selected slot, which is one
\* of the event's slots and not full; without time slots the body carries only
\* event_id.
C4_TimeSlotInRequest ==
    /\ [](bookingPage.currentStep = "confirmation" /\ bookingPage.hasTimeSlots =>
             bookingPage.selectedTimeSlot # NullRec)
    /\ [][\A m \in BagToSet(inflight') :
             PostSent(m) =>
                IF bookingPage.hasTimeSlots
                    THEN /\ bookingPage.selectedTimeSlot # NullRec
                         /\ HasSlotFields(m.body)
                         /\ m.body.time_slot_start = bookingPage.selectedTimeSlot.start
                         /\ m.body.time_slot_end = bookingPage.selectedTimeSlot.end
                         /\ \E i \in 1..Len(bookingPage.timeSlots) :
                               /\ bookingPage.timeSlots[i].start = m.body.time_slot_start
                               /\ bookingPage.timeSlots[i].end = m.body.time_slot_end
                               /\ bookingPage.timeSlots[i].available > 0
                    ELSE DOMAIN m.body = {"event_id"}]_vars

C4_Witness ==
    /\ bookingPage.hasTimeSlots
    /\ Len(bookingPage.timeSlots) >= 2
    /\ bookingPage.timeSlots[1].available = 0
    /\ \E m \in BookingInFlight :
          /\ m.status = "pending"
          /\ HasSlotFields(m.body)
          /\ m.body.time_slot_start = 2

\* C6: currentStep becomes success, bookingReference changes and
\* handleBooking sets isBooked only in the step that takes an ok response of
\* the booking POST; the step that takes a failed one leaves currentStep,
\* isBooked and bookingReference as they are, shows an error toast and puts
\* bookingLoading back to false, which enables Confirm Booking again.
C6_BookedOnlyOnSuccess ==
    [][/\ ( \/ bookingPage'.currentStep = "success" /\ bookingPage.currentStep # "success"
            \/ bookingPage'.bookingReference # bookingPage.bookingReference
            \/ bookingPage'.isBooked /\ ~bookingPage.isBooked
                 /\ ~\E m \in BagToSet(inflight) : m.fn = "checkIfBooked" /\ Consumed(m) )
          => \E m \in BookingInFlight :
                /\ Consumed(m)
                /\ m.status = "ok"
                /\ bookingPage'.isBooked
                /\ bookingPage'.currentStep = "success"
                /\ bookingPage'.bookingReference = m.body.booking.booking_reference
       /\ \A m \in BookingInFlight :
             Consumed(m) /\ m.status \in {"notok", "throw"} =>
                /\ bookingPage'.currentStep = bookingPage.currentStep
                /\ bookingPage'.isBooked = bookingPage.isBooked
                /\ bookingPage'.bookingReference = bookingPage.bookingReference
                /\ bookingPage'.toast = [type |-> "error", show |-> TRUE]
                /\ ~bookingPage'.bookingLoading
                /\ (bookingPage.currentStep = "confirmation" /\ bookingPage.acceptedTerms
                      => (ENABLED handleBooking)')]_vars

\* a failed booking has been reported and a second POST is under way
C6_Witness ==
    /\ bookingPage.toast = [type |-> "error", show |-> TRUE]
    /\ bookingPage.currentStep = "confirmation"
    /\ bookingPage.bookingLoading
    /\ ~bookingPage.isBooked
    /\ bookingPage.bookingReference = ""
    /\ \E m \in BookingInFlight : m.status = "ok"

\* C8: off the details step the user is a participant; the step from details
\* to eligibility is taken only with isBooked false and available_slots > 0;
\* no booking POST exists for a token whose role is not participant.
C8_ParticipantOnly ==
    /\ [](bookingPage.currentStep # "details" => bookingPage.userRole = "participant")
    /\ [](BookingInFlight # {} =>
             bookingPage.userRole = "participant" /\ localStorage.access_token = "participant")
    /\ [][bookingPage.currentStep = "details" /\ bookingPage'.currentStep = "eligibility" =>
             /\ ~bookingPage.isBooked
             /\ bookingPage.event.available_slots > 0
             /\ bookingPage.userRole = "participant"]_vars

C8_Witness ==
    /\ bookingPage.userRole = "participant"
    /\ bookingPage.currentStep = "eligibility"
    /\ bookingPage.isBooked
    /\ bookingPage.event.available_slots = 1

----------------------------------------------------------------------------
(* Claims about ViewResultPage *)

\* C3: result is set only by the step that takes an ok response of the view
\* call, to the body of that response; the view call is issued only on step
\* view-result, with the six digits entered; step becomes view-result only
\* with an ok response of request-otp; so result # null implies
\* step = view-result, whatever requests failed before.
C3_OtpGating ==
    /\ [](viewResultPage.result # NullRec => viewResultPage.step = "view-result")
    /\ [][/\ viewResultPage'.result # viewResultPage.result =>
                \E m \in BagToSet(inflight) :
                   /\ Consumed(m)
                   /\ m.fn = "handleVerifyOTP"
                   /\ m.status = "ok"
                   /\ viewResultPage'.result = m.body
                   /\ viewResultPage.step = "view-result"
          /\ viewResultPage'.step # viewResultPage.step =>
                \E m \in BagToSet(inflight) :
                   /\ Consumed(m)
                   /\ m.fn = "handleRequestOTP"
                   /\ m.status = "ok"
                   /\ viewResultPage'.step = "view-result"
          /\ \A m \in BagToSet(inflight') :
                m.fn = "handleVerifyOTP" /\ m.status = "pending" /\ Sent(m) =>
                   /\ viewResultPage.step = "view-result"
                   /\ m.body.otp_code = viewResultPage.otp
                   /\ Len(m.body.otp_code) = 6]_vars

\* the result is shown, after the code was requested and six digits entered
C3_Witness ==
    /\ page = "ViewResultPage"
    /\ viewResultPage.result \in ResultDetails
    /\ viewResultPage.step = "view-result"
    /\ Len(viewResultPage.otp) = 6
    /\ ~viewResultPage.loading

----------------------------------------------------------------------------
(* Claims about the mount-time fetches *)

InFlightOf(fn) == BagCardinality([m \in {x \in BagToSet(inflight) : x.fn = fn} |-> CopiesIn(m, inflight)])

\* C5 as stated: on EventBookingPage and EventsPage at most one request of
\* the page is in flight at any moment.
C5_OneRequestInFlight ==
    page \in {"EventBookingPage", "EventsPage"} => BagCardinality(inflight) <= 1

\* C5 as amended: each async function has at most one request in flight (the
\* time-slots request follows the event response), and the functions the
\* mount effect starts run side by side, so that at most two requests of the
\* page are in flight.
C5_OneRequestPerFunction ==
    page \in {"EventBookingPage", "EventsPage"} =>
        /\ BagCardinality(inflight) <= 2
        /\ \A m \in BagToSet(inflight) : InFlightOf(m.fn) = 1

C5_Witness ==
    /\ page = "EventBookingPage"
    /\ \E m \in BagToSet(inflight) : m.url = UrlSlots /\ m.status = "pending"
    /\ \E m \in BagToSet(inflight) : m.fn = "checkIfBooked" /\ m.status = "pending"

\* the branch of the render that shows 'Event not found'
EventNotFoundShown ==
    /\ page = "EventBookingPage"
    /\ mounted
    /\ ~bookingPage.loading
    /\ bookingPage.event = NullRec

\* C23: event is non-null only when the backend returned the event with an
\* ok response; after a response that is not ok or a request that threw,
\* event is null and, once loading is over, the page shows 'Event not found'
\* instead of the wizard.
C23_EventOnlyWhenLoaded ==
    page = "EventBookingPage" =>
        /\ bookingPage.event # NullRec => bookingPage.event \in EventBodies
        /\ (mounted /\ ~bookingPage.loading => EventNotFoundShown \/ WizardRendered)

\* C25: on the success step isBooked is true and bookingReference is a
\* reference the backend returned for the booking; the success step is
\* terminal: no step leaves it, changes the reference or sends a booking POST.
C25_SuccessIsTerminal ==
    /\ [](page = "EventBookingPage" /\ bookingPage.currentStep = "success" =>
             /\ bookingPage.isBooked
             /\ \E b \in BookingCreated :
                   bookingPage.bookingReference = b.booking.booking_reference)
    /\ [][bookingPage.currentStep = "success" =>
             /\ bookingPage'.currentStep = "success"
             /\ bookingPage'.bookingReference = bookingPage.bookingReference
             /\ \A m \in BagToSet(inflight') : ~PostSent(m)]_vars

----------------------------------------------------------------------------
(* Claims about EventsPage *)

\* the same letter, whatever the case
SameLetter(c, d) == c = d \/ {c, d} \in {{"a", "A"}, {"b", "B"}}

ContainsIgnoringCase(str, search) ==
    \E offset \in 0..(Len(str) - Len(search)) :
        \A k \in 1..Len(search) : SameLetter(str[offset + k], search[k])

Selected(event) ==
    /\ ContainsIgnoringCase(event.address, eventsPage.searchLocation)
    /\ eventsPage.selectedDate # "" => event.event_date = eventsPage.selectedDate

SelectedIndices == {i \in 1..Len(eventsPage.events) : Selected(eventsPage.events[i])}

\* the j-th smallest selected index
NthSelected(j) ==
    CHOOSE i \in SelectedIndices : Cardinality({k \in SelectedIndices : k <= i}) = j

\* C9: filteredEvents lists, in the order of events, exactly the events whose
\* address contains searchLocation whatever the case and whose event_date is
\* selectedDate when one is selected; with both filters empty it is events.
C9_FilteredEvents ==
    /\ Len(filteredEvents) = Cardinality(SelectedIndices)
    /\ \A j \in 1..Len(filteredEvents) : filteredEvents[j] = eventsPage.events[NthSelected(j)]
    /\ (eventsPage.searchLocation = <<>> /\ eventsPage.selectedDate = "" =>
           filteredEvents = eventsPage.events)

C9_Witness ==
    /\ page = "EventsPage"
    /\ Len(eventsPage.events) = 2
    /\ eventsPage.searchLocation = <<"A">>
    /\ eventsPage.selectedDate = "2025-01-01"
    /\ Len(filteredEvents) = 2
    /\ filteredEvents[1].id = "E3"

\* C22: the events request of EventsPage asks for published_only=false when
\* the stored token carries the role admin, and for published_only=true
\* otherwise: the role in the URL is the role the mount effect decoded.
C22_AdminSeesUnpublished ==
    page = "EventsPage" =>
        \A m \in BagToSet(inflight) :
            m.fn = "fetchEvents" =>
                m.url = IF localStorage.access_token = "admin" THEN UrlAll ELSE UrlPublished

----------------------------------------------------------------------------
(* Claims about MyBookingsPage *)

CancelConsumed(m) == m.fn = "handleCancelBooking" /\ Consumed(m)

\* C7: the step that takes an ok response of the cancel request changes, in
\* bookings, only the booking cancelled: its booking_status becomes cancelled
\* and its cancelled_at is set; the step that takes a failed one leaves
\* bookings as it is and shows an error toast; a booking turns cancelled in
\* bookings only by such an ok response or by a fetched list.
C7_CancelOnlyOnSuccess ==
    [][/\ \A m \in BagToSet(inflight) :
             CancelConsumed(m) /\ m.status = "ok" =>
                LET old == myBookingsPage.bookings
                    new == myBookingsPage'.bookings
                IN /\ Len(new) = Len(old)
                   /\ \A i \in 1..Len(old) :
                         IF old[i].id = m.body.bookingId
                           THEN /\ new[i].booking_status = "cancelled"
                                /\ new[i].cancelled_at # <<>>
                                /\ new[i].id = old[i].id
                                /\ new[i].event = old[i].event
                           ELSE new[i] = old[i]
       /\ \A m \in BagToSet(inflight) :
             CancelConsumed(m) /\ m.status \in {"notok", "throw"} =>
                /\ myBookingsPage'.bookings = myBookingsPage.bookings
                /\ myBookingsPage'.toast = [type |-> "error", show |-> TRUE]
       /\ (\E i \in 1..Len(myBookingsPage.bookings) :
              /\ Len(myBookingsPage'.bookings) = Len(myBookingsPage.bookings)
              /\ myBookingsPage.bookings[i].booking_status # "cancelled"
              /\ myBookingsPage'.bookings[i].booking_status = "cancelled")
          => \E m \in BagToSet(inflight) :
                /\ Consumed(m)
                /\ m.status = "ok"
                /\ m.fn \in {"handleCancelBooking", "fetchBookings"}]_vars

\* the first booking was cancelled here, the second is untouched, and a
\* second cancel is being refused
C7_Witness ==
    /\ page = "MyBookingsPage"
    /\ Len(myBookingsPage.bookings) = 2
    /\ myBookingsPage.bookings[1].booking_status = "cancelled"
    /\ myBookingsPage.bookings[1].cancelled_at # <<>>
    /\ serverBookings[1].cancelled_at # <<>>
    /\ myBookingsPage.bookings[2].booking_status = "confirmed"
    /\ \E m \in BagToSet(inflight) : m.fn = "handleCancelBooking" /\ m.status = "notok"

Listed(b, list) == \E i \in 1..Len(list) : list[i].id = b.id

SelectingFilters(b) ==
    {f \in {"upcoming", "past", "cancelled"} : Listed(b, Filtered(myBookingsPage.bookings, f, now))}

\* C10: every booking is selected by exactly one of the filters upcoming,
\* past and cancelled, a cancelled booking by cancelled whatever its date, and
\* the filter all selects the whole list.
C10_FiltersPartition ==
    /\ \A i \in 1..Len(myBookingsPage.bookings) :
          LET b == myBookingsPage.bookings[i]
          IN /\ Cardinality(SelectingFilters(b)) = 1
             /\ b.booking_status = "cancelled" => SelectingFilters(b) = {"cancelled"}
    /\ Filtered(myBookingsPage.bookings, "all", now) = myBookingsPage.bookings

\* a cancelled booking of yesterday and a confirmed booking of today
C10_Witness ==
    /\ page = "MyBookingsPage"
    /\ Len(myBookingsPage.bookings) = 2
    /\ now = [day |-> 3, past_midnight |-> TRUE]
    /\ myBookingsPage.bookings[1].booking_status = "cancelled"
    /\ myBookingsPage.bookings[2].booking_status = "confirmed"
    /\ myBookingsPage.bookings[2].event.event_date = 3

----------------------------------------------------------------------------
(* Further claims about EventBookingPage *)

Criteria == [age |-> "true", menstruating |-> "false", hysterectomy |-> "false", hpv_test |-> "false"]

AllAnswered == \A q \in Questions : bookingPage.eligibility[q] \in {"true", "false"}

\* C16: on the eligibility step the note is shown exactly when the four
\* questions are answered and the answers are not (yes, no, no, no); with the
\* four questions answered Continue is enabled whatever the answers, and on
\* confirmation Confirm Booking is enabled whatever the answers.
C16_ScreeningIsAdvisory ==
    /\ (WizardRendered /\ bookingPage.currentStep = "eligibility" =>
          /\ eligibilityWarning <=> (AllAnswered /\ bookingPage.eligibility # Criteria)
          /\ AllAnswered => ENABLED EligibilityContinue)
    /\ (WizardRendered /\ bookingPage.currentStep # "eligibility" => ~eligibilityWarning)
    /\ (/\ WizardRendered
        /\ bookingPage.currentStep = "confirmation"
        /\ bookingPage.acceptedTerms
        /\ ~bookingPage.bookingLoading
        => ENABLED handleBooking)

\* a participant whose answers do not meet the criteria has booked
C16_Witness ==
    /\ bookingPage.currentStep = "success"
    /\ bookingPage.isBooked
    /\ AllAnswered
    /\ bookingPage.eligibility # Criteria

\* C17: at most one booking POST (or its response) is under way; it is
\* under way exactly while bookingLoading is true, and a POST is issued only
\* with bookingLoading false and none under way, wherever the participant has
\* gone in the wizard in between.
C17_NoDoubleSubmission ==
    /\ [](InFlightOf("handleBooking") <= 1)
    /\ [](page = "EventBookingPage" => (bookingPage.bookingLoading <=> BookingInFlight # {}))
    /\ [][\A m \in BagToSet(inflight') :
             PostSent(m) => ~bookingPage.bookingLoading /\ BookingInFlight = {}]_vars
    /\ [](bookingPage.bookingLoading => ~ENABLED handleBooking)

\* the POST is pending and the participant has gone back to the first step
C17_Witness ==
    /\ bookingPage.currentStep = "details"
    /\ bookingPage.bookingLoading
    /\ \E m \in BookingInFlight : m.status = "pending"

\* C18: while isBooked is true the wizard is on details or success, and no
\* booking POST is sent with isBooked true, however the response of
\* checkIfBooked interleaves with the clicks.
C18_NoRebooking ==
    /\ [](page = "EventBookingPage" /\ bookingPage.isBooked =>
             bookingPage.currentStep \in {"details", "success"})
    /\ [][\A m \in BagToSet(inflight') : PostSent(m) => ~bookingPage.isBooked]_vars

----------------------------------------------------------------------------
(* Further claims about MyBookingsPage *)

QRModalShown ==
    /\ page = "MyBookingsPage"
    /\ myBookingsPage.showQRModal
    /\ myBookingsPage.selectedBooking # NullRec

\* C14: the QR modal never displays a booking that the list shows as
\* cancelled.
C14_NoQRForCancelled ==
    QRModalShown /\ ~pendingEffect =>
        \A i \in 1..Len(myBookingsPage.filteredBookings) :
            myBookingsPage.filteredBookings[i].id = myBookingsPage.selectedBooking.id
                => myBookingsPage.filteredBookings[i].booking_status # "cancelled"

\* C19: a booking that bookings holds as cancelled (cancelled when fetched, or
\* marked by a successful cancel) is held as cancelled after every step.
C19_CancelledStaysCancelled ==
    [][\A i \in 1..Len(myBookingsPage.bookings) :
          myBookingsPage.bookings[i].booking_status = "cancelled" =>
             \E j \in 1..Len(myBookingsPage'.bookings) :
                /\ myBookingsPage'.bookings[j].id = myBookingsPage.bookings[i].id
                /\ myBookingsPage'.bookings[j].booking_status = "cancelled"]_vars

\* C20: the count on each filter tab is the number of bookings the list
\* holds when that tab is the active filter, bookings of today included.
C20_TabCounts ==
    page = "MyBookingsPage" /\ ~myBookingsPage.loading =>
        \A f \in FilterTypes :
            TabCount(f) = Len(Filtered(myBookingsPage.bookings, f, now))

\* the cancel requests issued and not yet finished: on their way, or answered
\* with the continuation still to run
CancelsInFlight == {m \in BagToSet(inflight) : m.fn = "handleCancelBooking"}

\* C21: cancelingIds holds exactly the ids of the bookings with a cancel
\* request in flight, whatever its outcome; each booking has at most one, the
\* cancels of different bookings overlap without losing an id, and with no
\* cancel in flight cancelingIds is empty.
C21_CancelingIdsTrackRequests ==
    page = "MyBookingsPage" =>
        /\ myBookingsPage.cancelingIds = {m.body.bookingId : m \in CancelsInFlight}
        /\ \A m \in CancelsInFlight : CopiesIn(m, inflight) = 1
        /\ \A m, n \in CancelsInFlight : m.body.bookingId = n.body.bookingId => m = n
        /\ (CancelsInFlight = {} => myBookingsPage.cancelingIds = {})

C21_Witness ==
    /\ page = "MyBookingsPage"
    /\ cancelCount = 2
    /\ myBookingsPage.toast = Toast("error")
    /\ Cardinality(myBookingsPage.cancelingIds) = 1
    /\ \E m \in CancelsInFlight : m.status = "ok" /\ m.body.bookingId \in myBookingsPage.cancelingIds

----------------------------------------------------------------------------
(* Claims about MyResultsPage *)

ResultSelected(r) ==
    /\ myResultsPage.activeFilter = "available" => r.result_available
    /\ myResultsPage.activeFilter = "pending" => ~r.result_available
    /\ myResultsPage.searchTerm # <<>> =>
          \/ ContainsIgnoringCase(r.event_name, myResultsPage.searchTerm)
          \/ ContainsIgnoringCase(r.result_category, myResultsPage.searchTerm)

SelectedResultIndices ==
    {i \in 1..Len(myResultsPage.results) : ResultSelected(myResultsPage.results[i])}

\* the j-th smallest selected index
NthSelectedResult(j) ==
    CHOOSE i \in SelectedResultIndices : Cardinality({k \in SelectedResultIndices : k <= i}) = j

\* C11: once the filter effect has run, filteredResults lists, in the order of
\* results, exactly the results that pass the status filter (available: the
\* result is available; pending: it is not; all: every result) and, when
\* searchTerm is not empty, whose event_name or result_category contains
\* searchTerm whatever the case.
C11_FilteredResults ==
    page = "MyResultsPage" /\ ~pendingEffect =>
        /\ Len(myResultsPage.filteredResults) = Cardinality(SelectedResultIndices)
        /\ \A j \in 1..Len(myResultsPage.filteredResults) :
              myResultsPage.filteredResults[j] = myResultsPage.results[NthSelectedResult(j)]

C11_Witness ==
    /\ page = "MyResultsPage"
    /\ ~pendingEffect
    /\ Len(myResultsPage.results) = 2
    /\ myResultsPage.activeFilter = "pending"
    /\ myResultsPage.searchTerm = <<"A">>
    /\ Len(myResultsPage.filteredResults) = 1
    /\ myResultsPage.filteredResults[1].id = "R2"

\* C12: once the pending effects have run, filteredBookings of MyBookingsPage
\* is what activeFilter selects from bookings, and filteredResults of
\* MyResultsPage is what activeFilter and searchTerm select from results,
\* after every sequence of filter changes, fetches, successful cancels and
\* delayed refreshes.
C12_DisplayedListsFollowState ==
    /\ page = "MyBookingsPage" /\ ~pendingEffect =>
          myBookingsPage.filteredBookings =
              Filtered(myBookingsPage.bookings, myBookingsPage.activeFilter, now)
    /\ page = "MyResultsPage" /\ ~pendingEffect =>
          myResultsPage.filteredResults = filterResults

C12_Witness ==
    /\ page = "MyBookingsPage"
    /\ ~pendingEffect
    /\ cancelCount >= 1
    /\ timers = 0
    /\ inflight = EmptyBag
    /\ myBookingsPage.activeFilter = "cancelled"
    /\ Len(myBookingsPage.filteredBookings) >= 1
    /\ myBookingsPage.filteredBookings # myBookingsPage.bookings

----------------------------------------------------------------------------
(* Claims about AdminEventsPage *)

DeleteSent(m) == m.fn = "handleDelete" /\ m.status = "pending" /\ Sent(m)

RefetchSent(m) == m.fn = "adminFetchEvents" /\ m.status = "pending" /\ Sent(m)

DeleteFinished(m) == m.fn = "handleDelete" /\ m.status # "pending" /\ Consumed(m)

\* C24: a step sends a DELETE request only when the dialog it showed was
\* confirmed, and for an event of the list; after the mount, a step issues the
\* events request only when it takes an ok response of a DELETE; the step
\* that takes a failed DELETE leaves events as it is and issues no request.
C24_DeleteThenRefetch ==
    [][page = "AdminEventsPage" =>
         /\ \A m \in BagToSet(inflight') :
               DeleteSent(m) =>
                  /\ adminEventsPage'.confirm = "true"
                  /\ \E i \in DOMAIN adminEventsPage.events :
                        adminEventsPage.events[i].id = m.body.eventId
         /\ adminEventsPage'.confirm = "false" /\ adminEventsPage.confirm # "false" =>
               inflight' = inflight
         /\ \A m \in BagToSet(inflight') :
               mounted /\ RefetchSent(m) =>
                  \E r \in BagToSet(inflight) : DeleteFinished(r) /\ r.status = "ok"
         /\ \A r \in BagToSet(inflight) :
               DeleteFinished(r) /\ r.status \in {"notok", "throw"} =>
                  /\ adminEventsPage'.events = adminEventsPage.events
                  /\ \A m \in BagToSet(inflight') : ~Sent(m)
    ]_vars

C24_Witness ==
    /\ page = "AdminEventsPage"
    /\ adminEventsPage.confirm = "true"
    /\ adminEventsPage.alert = ErrorBody.detail
    /\ Len(adminEventsPage.events) = 2
    /\ inflight = EmptyBag

----------------------------------------------------------------------------
(* Claims about every page *)

\* the loading cell of the page shown
Loading ==
    CASE page = "EventBookingPage" -> bookingPage.loading
      [] page = "EventsPage" -> eventsPage.loading
      [] page = "MyBookingsPage" -> myBookingsPage.loading
      [] page = "MyResultsPage" -> myResultsPage.loading
      [] page = "ParticipantDashboardPage" -> dashboardPage.loading
      [] page = "AdminDashboardPage" -> adminDashboardPage.loading
      [] page = "AdminEventsPage" -> adminEventsPage.loading
      [] OTHER -> FALSE

\* C13 as stated: on every page that fetches on mount, once every request
\* issued has completed and its continuation has run, loading is false.
C13_LoadingEnds ==
    mounted /\ inflight = EmptyBag => ~Loading

\* C13 as amended: on every page that fetches on mount, once every request
\* issued has completed and its continuation has run, loading is false; the
\* exception is MyBookingsPage opened without a token, which issues no
\* request, asks the router for the login page and keeps loading true.
C13_LoadingEndsUnlessRedirected ==
    /\ mounted /\ inflight = EmptyBag =>
          \/ ~Loading
          \/ page = "MyBookingsPage" /\ localStorage.access_token = NULL
    /\ page = "MyBookingsPage" /\ mounted /\ localStorage.access_token = NULL =>
          /\ myBookingsPage.loading
          /\ inflight = EmptyBag
          /\ redirect = "/auth/participant/login"

C13_Witness ==
    /\ page = "ParticipantDashboardPage"
    /\ mounted
    /\ inflight = EmptyBag
    /\ ~dashboardPage.loading
    /\ dashboardPage.toast = Toast("error")
    /\ Len(dashboardPage.upcomingEvents) > 0
    /\ dashboardPage.myBookings = <<>>

\* C15: no step of any page writes to local storage: its only entry is
\* access_token, and booking, cancelling, requesting and verifying an OTP,
\* deleting, filtering and every other step leave it as it was.
C15_StorageOnlyRead ==
    [][localStorage' = localStorage /\ DOMAIN localStorage' = {"access_token"}]_vars

C15_Witness ==
    /\ page = "EventBookingPage"
    /\ bookingPage.isBooked
    /\ bookingPage.currentStep = "success"
    /\ bookingPage.bookingReference # ""
    /\ localStorage = [access_token |-> "participant"]

----------------------------------------------------------------------------

Init ==
    /\ page \in Pages
    /\ mounted = FALSE
    /\ localStorage \in [access_token :
                            CASE page \in {"EventBookingPage", "EventsPage"} -> Tokens
                              [] page \in {"AdminDashboardPage", "AdminEventsPage"} -> {NULL, "admin"}
                              [] OTHER -> {NULL, "participant"}]
    /\ inflight = EmptyBag
    /\ bookingPage = EventBookingPageInit
    /\ eventsPage = EventsPageInit
    /\ myBookingsPage = MyBookingsPageInit
    /\ viewResultPage = ViewResultPageInit
    /\ now \in IF page \in {"MyBookingsPage", "ParticipantDashboardPage"}
                 THEN Instants ELSE {[day |-> 2, past_midnight |-> FALSE]}
    /\ serverBookings \in IF page \in {"MyBookingsPage", "ParticipantDashboardPage"}
                            THEN InitialServerBookings ELSE {<<>>}
    /\ timers = 0
    /\ pendingEffect = FALSE
    /\ cancelCount = 0
    /\ redirect = NULL
    /\ myResultsPage = MyResultsPageInit
    /\ dashboardPage = DashboardPageInit
    /\ adminDashboardPage = AdminDashboardPageInit
    /\ adminEventsPage = AdminEventsPageInit

Next ==
    \/ \E req \in BagToSet(inflight) : \E res \in Replies(req) : Respond(req, res)
    \/ BookingNext
    \/ \E req \in BagToSet(inflight) : \E status \in {"ok", "notok", "throw"} : RespondCancel(req, status)
    \/ EventsNext
    \/ MyBookingsNext
    \/ ViewResultNext
    \/ MyResultsNext
    \/ DashboardNext
    \/ AdminDashboardNext
    \/ AdminEventsNext

Spec == Init /\ [][Next]_vars

====
